---- MODULE Spec2Model ----
(***************************************************************************)
(* Model of extract_subtitles.py: the SubtitleExtractor engine (JobState   *)
(* counters, cancel flag, probe and extraction of subtitle streams) and    *)
(* the part of SubtitleExtractorGUI that drives it: start_extraction on    *)
(* the UI thread, run_extraction on a worker thread, cancel_extraction     *)
(* and finish_extraction.  The UI thread and the worker threads interleave *)
(* at the granularity of the actions below; every external subprocess      *)
(* (ffprobe, ffmpeg) is a point where the worker blocks.                   *)
(***************************************************************************)
EXTENDS Integers, Sequences, FiniteSets, TLC

\* ---------------------------------------------------------------- bounds
\* Number of runs (worker threads) started in one behaviour.
MaxRuns == 2
\* Number of stderr lines the conversion tool prints before it exits.
MaxLines == 1

\* The worker threads of the model: the one-run-more specification SpecRace
\* starts one thread more than Spec.
Workers == 1..(MaxRuns + 1)

\* ------------------------------------------------- the format table
\* SUBTITLE_FORMATS: format name -> extension (the ffmpeg codec name and
\* the description do not influence control flow or the output path).
SUBTITLE_FORMATS ==
  [f \in {"SRT", "VobSub", "ASS", "WebVTT"} |->
     CASE f = "SRT"    -> [extension |-> "srt", ffmpeg_format |-> "srt"]
       [] f = "VobSub" -> [extension |-> "idx", ffmpeg_format |-> "dvdsub"]
       [] f = "ASS"    -> [extension |-> "ass", ffmpeg_format |-> "ass"]
       [] f = "WebVTT" -> [extension |-> "vtt", ffmpeg_format |-> "webvtt"]]

\* ------------------------------------------------- the file system
\* The absent value (Python None, a missing JSON key).
None == "None"

\* One directory tree R with a subdirectory R/a, a tree E that holds no
\* video file, and a tree D with one video that has two English subtitle
\* streams.  Under[d] is the set of directories os.walk(d) visits.
Under ==
  [d \in {"R", "R/a", "E", "D"} |->
     CASE d = "R"   -> {"R", "R/a"}
       [] d = "R/a" -> {"R/a"}
       [] d = "E"   -> {"E"}
       [] d = "D"   -> {"D"}]

\* The files, in the order os.walk yields them (top-down).  tags is what
\* ffprobe reports for the file's subtitle streams: index and language tag,
\* None when the stream has no language tag.
FileTable ==
  << [dir |-> "R",   name |-> "m1",    ext |-> "mkv",
      streams |-> << [index |-> 2, tag |-> "eng"], [index |-> 3, tag |-> "heb"] >>],
     [dir |-> "R",   name |-> "notes", ext |-> "txt", streams |-> << >>],
     [dir |-> "R/a", name |-> "m2",    ext |-> "MKV",
      streams |-> << [index |-> 1, tag |-> None], [index |-> 2, tag |-> "heb"] >>],
     [dir |-> "E",   name |-> "readme", ext |-> "MD", streams |-> << >>],
     [dir |-> "D",   name |-> "m3",    ext |-> "mp4",
      streams |-> << [index |-> 1, tag |-> "eng"], [index |-> 2, tag |-> "eng"] >>] >>

\* What a run can be started with: the selected directories
\* (selected_subdirs), the language, the format and the output directory.
\* The selections are the root alone, the root with its subdirectory (the
\* default after browsing: every check box is set), a tree without
\* videos and the tree D.  The format is the value of format_var, which
\* starts as "SRT" and is set by an option menu whose values are the keys
\* of SUBTITLE_FORMATS (lines 297, 434-437, 731).
Request(directories, language, output_format, output_dir) ==
  [directories |-> directories, language |-> language,
   output_format |-> output_format, output_dir |-> output_dir]

\* The arguments of a worker that is not running.
NoArgs == Request(<< >>, None, None, None)

Requests ==
  { Request(<<"R">>, "eng", "SRT", None),
    Request(<<"R", "R/a">>, "und", "SRT", None),
    Request(<<"E">>, "eng", "SRT", None),
    Request(<<"D">>, "eng", "SRT", None) }

\* str.lower() on the extensions of FileTable.
Lower(s) ==
  CASE s = "MKV" -> "mkv"
    [] s = "MD"  -> "md"
    [] OTHER     -> s

video_extensions == {"mkv", "mp4", "avi", "mov", "wmv", "flv", "webm"}

\* get_video_files: the files under directory whose lower-cased name ends
\* with a video extension, in walk order.
get_video_files(directory) ==
  LET Match(i) == /\ FileTable[i].dir \in Under[directory]
                  /\ Lower(FileTable[i].ext) \in video_extensions
  IN  SelectSeq([i \in 1..Len(FileTable) |-> i], Match)

\* run_extraction, lines 768-770: video_files.extend(...) per directory.
RECURSIVE EnumerateFiles(_)
EnumerateFiles(directories) ==
  IF directories = << >> THEN << >>
  ELSE get_video_files(Head(directories)) \o EnumerateFiles(Tail(directories))

\* get_subtitle_streams, lines 126-134: one stream_info per reported stream,
\* a missing language tag becomes 'und'.
StreamInfo(raw) ==
  [index |-> raw.index, language |-> IF raw.tag = None THEN "und" ELSE raw.tag]

ParseStreams(f) ==
  [k \in 1..Len(FileTable[f].streams) |-> StreamInfo(FileTable[f].streams[k])]

\* get_subtitle_streams: the result for a probe whose output is outcome:
\* "json" (parseable) or "garbage" (json.JSONDecodeError -> []).
get_subtitle_streams(f, outcome) ==
  IF outcome = "json" THEN ParseStreams(f) ELSE << >>
\* run_extraction, lines 786-790, without the "if stream['language'] ==
\* language" of line 789.
matching_streams_NoFilter(f, streams, language) ==
  [k \in 1..Len(streams) |-> [video_file |-> f, stream |-> streams[k]]]

\* run_extraction, lines 786-790: the streams of the requested language.
matching_streams(f, streams, language) ==
  LET Keep(s) == s.language = language
      kept == SelectSeq(streams, Keep)
  IN  [k \in 1..Len(kept) |-> [video_file |-> f, stream |-> kept[k]]]

\* extract_subtitle, lines 169-171 and 187: the output file of a task.
OutputFile(f, language, output_format, output_dir) ==
  [dir  |-> IF output_dir = None THEN FileTable[f].dir ELSE output_dir,
   base |-> FileTable[f].name,
   lang |-> language,
   ext  |-> SUBTITLE_FORMATS[output_format].extension]
\* extract_subtitle with the "not" of line 190 dropped.
PreLaunch_OverwriteInverted(f, language, output_format, output_dir, overwrite, existing) ==
  IF output_format \notin DOMAIN SUBTITLE_FORMATS THEN "unsupported"
  ELSE IF OutputFile(f, language, output_format, output_dir) \in existing /\ overwrite
       THEN "skip"
       ELSE "launch"

\* extract_subtitle without the check of line 190.
PreLaunch_IgnoresExisting(f, language, output_format, output_dir, overwrite, existing) ==
  IF output_format \notin DOMAIN SUBTITLE_FORMATS THEN "unsupported" ELSE "launch"

\* extract_subtitle, lines 177-193: what happens before ffmpeg is started.
\* "unsupported": format not in the table; "skip": the output exists and
\* overwrite is off; "launch": Popen is called.  existing is the set of
\* output files that exist.
PreLaunch(f, language, output_format, output_dir, overwrite, existing) ==
  IF output_format \notin DOMAIN SUBTITLE_FORMATS THEN "unsupported"
  ELSE IF OutputFile(f, language, output_format, output_dir) \in existing /\ ~overwrite
       THEN "skip"
       ELSE "launch"

\* extract_subtitle, lines 238-257: the counter increments after ffmpeg
\* exits with return_code and diagnostics containing the substrings diag.
ExitIncrements(return_code, diag) ==
  IF return_code # 0
  THEN [success |-> 0, failed |-> 1,
        skipped |-> IF "Unknown encoder" \in diag THEN 0
                    ELSE IF "Output file exists" \in diag THEN 1 ELSE 0]
  ELSE [success |-> 1, failed |-> 0, skipped |-> 0]

\* extract_subtitle, lines 232-235: the increments when the cancel flag is
\* seen in the stderr loop (the function returns without recording).
CancelIncrements == [success |-> 0, failed |-> 0, skipped |-> 0]

\* The diagnostics an ffmpeg exit can carry.
Diagnostics == SUBSET {"Unknown encoder", "Output file exists"}


\* ------------------------------------------------------------- state
VARIABLES
  ffmpegOK,          \* "ffmpeg" can be executed
  ffprobeOK,         \* "ffprobe" can be executed
  versionOK,         \* a tool that can be executed exits 0 on "-version"
  dependency_error,  \* __init__ showed the "Dependency Error" box
  files,             \* the subtitle files that exist on disk
  terminated,        \* outputs that terminated ffmpeg processes, which
                     \* nobody waited for, may still create
  extractor,         \* SubtitleExtractor: cancel_flag and the five counters
  extract_btn,       \* state of the Extract button
  cancel_btn,        \* state of the Cancel button
  overwrite_var,     \* the "Overwrite existing files" check box
  extraction_thread, \* the latest worker thread, 0 for None
  runs,              \* number of worker threads started so far
  pc,                \* per worker: where run_extraction stands
  args,              \* per worker: the arguments of run_extraction
  video_files,       \* per worker: local video_files
  subtitle_streams,  \* per worker: local subtitle_streams (the tasks)
  pos,               \* per worker: 1-based position of the running loop
  stderr_lines,      \* per worker: lines read from the running ffmpeg
  overwrite_arg,     \* per worker: extract_subtitle's parameter overwrite
  pending,           \* per worker: what extract_subtitle has yet to count
  summary,           \* per worker: what finish_extraction read at 874-880
  hist               \* per worker: what the run has done so far

vars == << ffmpegOK, ffprobeOK, versionOK, dependency_error, files,
           terminated, extractor,
           extract_btn, cancel_btn, overwrite_var, extraction_thread, runs,
           pc, args, video_files, subtitle_streams, pos, stderr_lines,
           overwrite_arg, pending, summary, hist >>

world == << ffmpegOK, ffprobeOK, versionOK, dependency_error >>
disk == << files, terminated >>
locals == << args, video_files, subtitle_streams, pos, stderr_lines,
            overwrite_arg, pending, summary >>
buttons == << extract_btn, cancel_btn >>
ui == << overwrite_var, extraction_thread, runs >>

\* SubtitleExtractor.__init__ and reset(): the zero state.
reset == [cancel_flag |-> FALSE, total_streams |-> 0, processed_streams |-> 0,
          successful_extractions |-> 0, failed_extractions |-> 0,
          skipped_extractions |-> 0]
\* A cancel() that flips the flag instead of setting it.
cancel_Toggles(e) == [e EXCEPT !.cancel_flag = ~@]

\* cancel(): sets the flag, nothing else.
cancel(e) == [e EXCEPT !.cancel_flag = TRUE]

\* check_dependencies, lines 69-87: both tools are run with "-version" and
\* check=True.  FileNotFoundError (a tool cannot be executed) and
\* CalledProcessError (a tool exits with a non-zero code) both give False.
check_dependencies(ffmpeg, ffprobe, version) == ffmpeg /\ ffprobe /\ version

\* extract_subtitle's counter updates, applied to the extractor.
Record(e, inc) ==
  [e EXCEPT !.successful_extractions = @ + inc.success,
            !.failed_extractions = @ + inc.failed,
            !.skipped_extractions = @ + inc.skipped]

\* run_extraction, line 830.
Processed(e) == [e EXCEPT !.processed_streams = @ + 1]

\* What a run has done: calls of finish_extraction so far, whether a
\* checkpoint of a loop saw the cancel flag, whether run_extraction logged
\* "Extraction cancelled by user." (line 839), and the kind of run it has
\* been so far: "repeat" when the output of every task was on disk when the
\* scan ended and every task so far was dispatched with overwrite off,
\* "clean" when no output was on disk when the scan ended, every task so
\* far was dispatched with no output on disk and no ffmpeg failed, "mixed"
\* otherwise, "none" before the scan has found a task.
NoHist == [finishes |-> 0, observed |-> FALSE, marked |-> FALSE, kind |-> "none"]

\* The kind of a run whose scan ends with the task list tasks.
ScanKind(tasks, request, existing) ==
  IF tasks = << >> THEN "none"
  ELSE IF request.output_format \notin DOMAIN SUBTITLE_FORMATS THEN "mixed"
  ELSE LET outs == { OutputFile(tasks[k].video_file, request.language,
                                request.output_format, request.output_dir) :
                       k \in DOMAIN tasks }
       IN  IF outs \subseteq existing THEN "repeat"
           ELSE IF outs \cap existing = {} THEN "clean" ELSE "mixed"

\* finish_extraction, lines 874-902: what is logged once total_streams was
\* found positive.
SummaryLog(e) ==
  IF e.cancel_flag THEN "cancelled"
  ELSE IF e.processed_streams > 0 THEN "summary" ELSE None

\* finish_extraction, lines 871-880: the label it has set and the values it
\* has read for the summary when the extractor is e at line 874.
Shown(e) ==
  [label |-> "Completed", log |-> SummaryLog(e),
   processed |-> e.processed_streams, total |-> e.total_streams,
   success |-> e.successful_extractions, failed |-> e.failed_extractions,
   skipped |-> e.skipped_extractions]

\* finish_extraction, lines 903-905: total_streams was read as 0; the label
\* is set to "Ready" and nothing is logged.
ShownReady ==
  [label |-> "Ready", log |-> None, processed |-> 0, total |-> 0,
   success |-> 0, failed |-> 0, skipped |-> 0]

\* finish_extraction has read nothing for a summary.
NoSummary == ShownReady

\* The output files of all requests.
Outputs ==
  { OutputFile(f, r.language, r.output_format, r.output_dir) :
      f \in DOMAIN FileTable, r \in Requests }

\* The machines the program is started on: whether ffmpeg and ffprobe can
\* be executed, whether the tools that can be executed exit with 0 on
\* "-version", and the subtitle files on disk.  Besides the machine with
\* working tools and no subtitle file and the machines with a missing tool
\* there is one whose tools can be executed but fail on "-version" and on
\* which an earlier session has left the output for R/m1.mkv, eng, SRT.
Machine(ffmpeg, ffprobe, version, existing) ==
  [ffmpegOK |-> ffmpeg, ffprobeOK |-> ffprobe, versionOK |-> version,
   files |-> existing]

Machines ==
  { Machine(TRUE, TRUE, TRUE, {}),
    Machine(TRUE, TRUE, FALSE, {OutputFile(1, "eng", "SRT", None)}),
    Machine(FALSE, TRUE, TRUE, {}),
    Machine(TRUE, FALSE, TRUE, {}),
    Machine(FALSE, FALSE, TRUE, {}) }

\* threading.Thread.is_alive for worker w.
is_alive(w) == pc[w] \notin {"idle", "done"}

Init ==
  /\ \E m \in Machines :
       /\ ffmpegOK = m.ffmpegOK
       /\ ffprobeOK = m.ffprobeOK
       /\ versionOK = m.versionOK
       /\ files = m.files
  /\ dependency_error = ~check_dependencies(ffmpegOK, ffprobeOK, versionOK)
  /\ terminated = {}
  /\ extractor = reset
  /\ extract_btn = "normal"
  /\ cancel_btn = "disabled"
  /\ overwrite_var = FALSE
  /\ extraction_thread = 0
  /\ runs = 0
  /\ pc = [w \in Workers |-> "idle"]
  /\ args = [w \in Workers |-> NoArgs]
  /\ video_files = [w \in Workers |-> << >>]
  /\ subtitle_streams = [w \in Workers |-> << >>]
  /\ pos = [w \in Workers |-> 0]
  /\ stderr_lines = [w \in Workers |-> 0]
  /\ overwrite_arg = [w \in Workers |-> FALSE]
  /\ pending = [w \in Workers |-> [success |-> 0, failed |-> 0, skipped |-> 0]]
  /\ summary = [w \in Workers |-> NoSummary]
  /\ hist = [w \in Workers |-> NoHist]
\* start_extraction without the call of reset() at line 750: the flag and
\* the counters of the previous run are kept.
start_extraction_NoReset(request) ==
  /\ extract_btn = "normal"
  /\ runs + 1 \in Workers
  /\ LET w == runs + 1 IN
       /\ extract_btn' = "disabled"
       /\ cancel_btn' = "normal"
       /\ extraction_thread' = w
       /\ runs' = w
       /\ pc' = [pc EXCEPT ![w] = "start"]
       /\ args' = [args EXCEPT ![w] = request]
  /\ UNCHANGED << world, disk, extractor, overwrite_var, video_files,
                  subtitle_streams, pos, stderr_lines, overwrite_arg, pending, summary,
                  hist >>

\* ------------------------------------------------------- the UI thread
\* start_extraction: the Extract button's command.
start_extraction(request) ==
  /\ extract_btn = "normal"
  /\ runs + 1 \in Workers
  /\ LET w == runs + 1 IN
       /\ extract_btn' = "disabled"
       /\ cancel_btn' = "normal"
       /\ extractor' = reset
       /\ extraction_thread' = w
       /\ runs' = w
       /\ pc' = [pc EXCEPT ![w] = "start"]
       /\ args' = [args EXCEPT ![w] = request]
  /\ UNCHANGED << world, disk, overwrite_var, video_files, subtitle_streams,
                  pos, stderr_lines, overwrite_arg, pending, summary, hist >>

\* cancel_extraction: the Cancel button's command.
cancel_extraction ==
  /\ cancel_btn = "normal"
  /\ IF extraction_thread # 0 /\ is_alive(extraction_thread)
     THEN /\ extractor' = cancel(extractor)
          /\ cancel_btn' = "disabled"
     ELSE UNCHANGED << extractor, cancel_btn >>
  /\ UNCHANGED << world, disk, extract_btn, ui, pc, locals, hist >>

\* The user sets or clears the overwrite check box.
toggle_overwrite ==
  /\ overwrite_var' = ~overwrite_var
  /\ UNCHANGED << world, disk, extractor, buttons, extraction_thread, runs,
                  pc, locals, hist >>

\* ---------------------------------------------- run_extraction (worker)
\* A step of a worker holds at most one access to what the threads share
\* (the extractor, the disk, the check box, the buttons); pc names the line
\* the worker stands before:
\*   "start" 766, "scan" 781-782, "probe" 785, "total" 802, "zero" 811,
\*   "extract" 812-813, "call" 826, "exists" 190, "ffmpeg" 225,
\*   "count" 179/192/248/252/256, "processed" 830, "progress" 831,
\*   "after" 838, "finish_early" 774/807 and "finish" 846 (865),
\*   "cancel_btn*" 866, "report*" 869, "summary*" 874, "log*" 881,
\*   "dialog*" 896 (the message box is open),
\*   "ready*" 904.

\* Lines 766-777: enumerate the video files of the selected directories.
Enumerate(w) ==
  /\ pc[w] = "start"
  /\ LET found == EnumerateFiles(args[w].directories) IN
       /\ video_files' = [video_files EXCEPT ![w] = found]
       /\ IF found = << >>
          THEN /\ pc' = [pc EXCEPT ![w] = "finish_early"]
               /\ pos' = pos
          ELSE /\ pc' = [pc EXCEPT ![w] = "scan"]
               /\ pos' = [pos EXCEPT ![w] = 1]
  /\ UNCHANGED << world, disk, extractor, buttons, ui, args,
                  subtitle_streams, stderr_lines, overwrite_arg, pending, summary, hist >>

\* Lines 781-782: the scan checkpoint reads a clear flag.
ScanCheck(w) ==
  /\ pc[w] = "scan"
  /\ pos[w] <= Len(video_files[w])
  /\ ~extractor.cancel_flag
  /\ pc' = [pc EXCEPT ![w] = "probe"]
  /\ UNCHANGED << world, disk, extractor, buttons, ui, locals, hist >>

\* Lines 781-783: the scan checkpoint sees the cancel flag and breaks.
ScanCancelled(w) ==
  /\ pc[w] = "scan"
  /\ pos[w] <= Len(video_files[w])
  /\ extractor.cancel_flag
  /\ pc' = [pc EXCEPT ![w] = "total"]
  /\ hist' = [hist EXCEPT ![w].observed = TRUE]
  /\ UNCHANGED << world, disk, extractor, buttons, ui, locals >>

\* Lines 785-799: probe the file; outcome is what ffprobe printed.
ScanProbe(w, outcome) ==
  /\ pc[w] = "probe"
  /\ ffprobeOK
  /\ LET f == video_files[w][pos[w]]
         streams == get_subtitle_streams(f, outcome)
         found == subtitle_streams[w] \o matching_streams(f, streams, args[w].language)
     IN  /\ subtitle_streams' = [subtitle_streams EXCEPT ![w] = found]
  /\ pos' = [pos EXCEPT ![w] = @ + 1]
  /\ pc' = [pc EXCEPT ![w] = "scan"]
  /\ UNCHANGED << world, disk, extractor, buttons, ui, args, video_files,
                  stderr_lines, overwrite_arg, pending, summary, hist >>

\* Lines 105-119, 843-844: ffprobe cannot be executed; subprocess.run raises
\* FileNotFoundError, which get_subtitle_streams does not catch (it is no
\* SubprocessError), so it reaches run_extraction's except clause.
ScanProbeRaises(w) ==
  /\ pc[w] = "probe"
  /\ ~ffprobeOK
  /\ pc' = [pc EXCEPT ![w] = "finish"]
  /\ UNCHANGED << world, disk, extractor, buttons, ui, locals, hist >>

\* Lines 802-808: total_streams is written; with no task the run goes to
\* its first call of finish_extraction.
ScanExit(w) ==
  /\ extractor' = [extractor EXCEPT !.total_streams = Len(subtitle_streams[w])]
  /\ pc' = [pc EXCEPT ![w] = IF subtitle_streams[w] # << >>
                             THEN "zero" ELSE "finish_early"]
  /\ hist' = [hist EXCEPT
                ![w].kind = ScanKind(subtitle_streams[w], args[w], files)]
  /\ UNCHANGED << world, disk, buttons, ui, locals >>

\* Lines 781, 802: every file has been probed; the loop ends and line 802
\* is next.
ScanDone(w) ==
  /\ pc[w] = "scan"
  /\ pos[w] > Len(video_files[w])
  /\ ScanExit(w)

\* Line 802 after the break of line 783.
ScanBreak(w) ==
  /\ pc[w] = "total"
  /\ ScanExit(w)

\* Line 811: processed_streams = 0, and the extraction loop begins.
ZeroProcessed(w) ==
  /\ pc[w] = "zero"
  /\ extractor' = [extractor EXCEPT !.processed_streams = 0]
  /\ pc' = [pc EXCEPT ![w] = "extract"]
  /\ pos' = [pos EXCEPT ![w] = 1]
  /\ UNCHANGED << world, disk, buttons, ui, args, video_files,
                  subtitle_streams, stderr_lines, overwrite_arg, pending, summary, hist >>

\* Lines 795-799: the arguments of update_ui_progress after a probe, given
\* the task list and the file list at that point.
scan_progress(streams, found_files) ==
  [current |-> Len(streams), total |-> Len(found_files)]

\* Lines 831-835: the arguments of update_ui_progress after a task, given
\* the extractor at that point.
extraction_progress(e) ==
  [current |-> e.processed_streams, total |-> e.total_streams]

\* The task the extraction loop stands at.
Task(w) == subtitle_streams[w][pos[w]]

TaskOutput(w) ==
  OutputFile(Task(w).video_file, args[w].language, args[w].output_format,
             args[w].output_dir)

\* What extract_subtitle does before it starts ffmpeg, for the task worker
\* w stands at, with the overwrite value it was called with.
TaskPreLaunch(w) ==
  PreLaunch(Task(w).video_file, args[w].language, args[w].output_format,
            args[w].output_dir, overwrite_arg[w], files)

\* The kind of the run of w after the task it stands at is dispatched, and
\* after an ffmpeg that did not exit with 0.
Dispatched(kind, w) ==
  IF args[w].output_format \notin DOMAIN SUBTITLE_FORMATS THEN "mixed"
  ELSE IF kind = "repeat" /\ ~overwrite_arg[w] /\ TaskOutput(w) \in files THEN "repeat"
  ELSE IF kind = "clean" /\ TaskOutput(w) \notin files THEN "clean"
  ELSE "mixed"

ToolFailed(kind) == IF kind = "repeat" THEN "repeat" ELSE "mixed"

\* No increment, and the three single increments.
NoIncrement == [success |-> 0, failed |-> 0, skipped |-> 0]

Failed == [success |-> 0, failed |-> 1, skipped |-> 0]

Skipped == [success |-> 0, failed |-> 0, skipped |-> 1]

\* The increment extract_subtitle makes first when inc is what it has to
\* record: skipped_extractions (line 192 or 248) comes before
\* failed_extractions (line 252).
FirstIncrement(inc) == IF inc.skipped > 0 THEN Skipped ELSE inc

\* extract_subtitle stands before the counter lines with inc to record.
ToCount(w, inc) ==
  /\ pc' = [pc EXCEPT ![w] = IF inc = NoIncrement THEN "processed" ELSE "count"]
  /\ pending' = [pending EXCEPT ![w] = inc]

\* The extraction loop stands at a task.
AtTask(w) ==
  /\ pc[w] = "extract"
  /\ pos[w] <= Len(subtitle_streams[w])

\* Lines 812-813: the extraction checkpoint reads a clear flag.
ExtractCheck(w) ==
  /\ AtTask(w)
  /\ ~extractor.cancel_flag
  /\ pc' = [pc EXCEPT ![w] = "call"]
  /\ UNCHANGED << world, disk, extractor, buttons, ui, locals, hist >>

\* Lines 812-814: the extraction checkpoint sees the flag and breaks.
ExtractCancelled(w) ==
  /\ AtTask(w)
  /\ extractor.cancel_flag
  /\ hist' = [hist EXCEPT ![w].observed = TRUE]
  /\ pc' = [pc EXCEPT ![w] = "after"]
  /\ UNCHANGED << world, disk, extractor, buttons, ui, locals >>

\* Lines 820-827, 169-187: extract_subtitle is called with the value the
\* check box has now; a format that is in SUBTITLE_FORMATS takes it to the
\* test of line 190.  The branch of lines 177-180 is taken in no run: the
\* format of every request is a key of SUBTITLE_FORMATS.
ExtractCall(w) ==
  /\ pc[w] = "call"
  /\ args[w].output_format \in DOMAIN SUBTITLE_FORMATS
  /\ overwrite_arg' = [overwrite_arg EXCEPT ![w] = overwrite_var]
  /\ pc' = [pc EXCEPT ![w] = "exists"]
  /\ UNCHANGED << world, disk, extractor, buttons, ui, args, video_files,
                  subtitle_streams, pos, stderr_lines, pending, summary, hist >>

\* Lines 190-191: the output file exists and overwrite is off.
ExtractSkip(w) ==
  /\ pc[w] = "exists"
  /\ TaskPreLaunch(w) = "skip"
  /\ ToCount(w, Skipped)
  /\ hist' = [hist EXCEPT ![w].kind = Dispatched(@, w)]
  /\ UNCHANGED << world, disk, extractor, buttons, ui, args, video_files,
                  subtitle_streams, pos, stderr_lines, overwrite_arg, summary >>

\* Lines 190-221: ffmpeg is started and runs.
ExtractLaunch(w) ==
  /\ pc[w] = "exists"
  /\ TaskPreLaunch(w) = "launch"
  /\ ffmpegOK
  /\ pc' = [pc EXCEPT ![w] = "ffmpeg"]
  /\ stderr_lines' = [stderr_lines EXCEPT ![w] = 0]
  /\ hist' = [hist EXCEPT ![w].kind = Dispatched(@, w)]
  /\ UNCHANGED << world, disk, extractor, buttons, ui, args, video_files,
                  subtitle_streams, pos, overwrite_arg, pending, summary >>

\* Lines 190-221, 843-844: ffmpeg cannot be executed; Popen raises
\* FileNotFoundError, no SubprocessError, so the run's except clause gets it.
ExtractLaunchRaises(w) ==
  /\ pc[w] = "exists"
  /\ TaskPreLaunch(w) = "launch"
  /\ ~ffmpegOK
  /\ pc' = [pc EXCEPT ![w] = "finish"]
  /\ hist' = [hist EXCEPT ![w].kind = ToolFailed(Dispatched(@, w))]
  /\ UNCHANGED << world, disk, extractor, buttons, ui, locals >>

\* The ffmpeg process that worker w has started creates its output file,
\* while the worker waits at line 225 or 238.  With -n it leaves a file
\* that exists alone, with -y it replaces it: the set of files is the same.
FfmpegWrites(w) ==
  /\ pc[w] = "ffmpeg"
  /\ TaskOutput(w) \notin files
  /\ files' = files \cup {TaskOutput(w)}
  /\ terminated' = terminated \ {TaskOutput(w)}
  /\ UNCHANGED << world, extractor, buttons, ui, pc, locals, hist >>

\* Lines 233-235: terminate() signals the ffmpeg process and nobody waits
\* for it, so the process can still create its output file f after the
\* worker has left extract_subtitle, or end without one.
FfmpegWritesLate(f) ==
  /\ f \in terminated
  /\ files' = files \cup {f}
  /\ terminated' = terminated \ {f}
  /\ UNCHANGED << world, extractor, buttons, ui, pc, locals, hist >>

\* Lines 225-232: a stderr line is read and the cancel flag is not set.
FfmpegLine(w) ==
  /\ pc[w] = "ffmpeg"
  /\ stderr_lines[w] < MaxLines
  /\ ~extractor.cancel_flag
  /\ stderr_lines' = [stderr_lines EXCEPT ![w] = @ + 1]
  /\ UNCHANGED << world, disk, extractor, buttons, ui, pc, args, video_files,
                  subtitle_streams, pos, overwrite_arg, pending, summary, hist >>

\* Lines 225-235: a stderr line is read, the flag is set: terminate and
\* return without a counter line.  The process is not waited for: when it
\* has not created its output yet it may still do so.
FfmpegCancelled(w) ==
  /\ pc[w] = "ffmpeg"
  /\ stderr_lines[w] < MaxLines
  /\ extractor.cancel_flag
  /\ ToCount(w, CancelIncrements)
  /\ hist' = [hist EXCEPT ![w].kind = ToolFailed(@)]
  /\ terminated' = terminated \cup ({TaskOutput(w)} \ files)
  /\ UNCHANGED << world, files, extractor, buttons, ui, args, video_files,
                  subtitle_streams, pos, stderr_lines, overwrite_arg, summary >>

\* Lines 238-255: stderr is at its end and the worker sees ffmpeg exit with
\* return_code; diag are the substrings its diagnostics contained.  An
\* ffmpeg that exits with 0 has written its output file; one that fails may
\* or may not have.  extract_subtitle stands before its counter lines.
FfmpegExit(w, return_code, diag) ==
  /\ pc[w] = "ffmpeg"
  /\ diag # {} => return_code # 0 /\ stderr_lines[w] > 0
  /\ return_code = 0 => TaskOutput(w) \in files
  /\ ToCount(w, ExitIncrements(return_code, diag))
  /\ hist' = [hist EXCEPT ![w].kind = IF return_code = 0 THEN @ ELSE ToolFailed(@)]
  /\ UNCHANGED << world, disk, extractor, buttons, ui, args, video_files,
                  subtitle_streams, pos, stderr_lines, overwrite_arg, summary >>

\* Lines 179, 192, 248, 252, 256: one counter line of extract_subtitle.
RecordOutcome(w) ==
  /\ pc[w] = "count"
  /\ LET inc == FirstIncrement(pending[w])
         rest == [success |-> pending[w].success - inc.success,
                  failed  |-> pending[w].failed - inc.failed,
                  skipped |-> pending[w].skipped - inc.skipped]
     IN  /\ extractor' = Record(extractor, inc)
         /\ ToCount(w, rest)
  /\ UNCHANGED << world, disk, buttons, ui, args, video_files,
                  subtitle_streams, pos, stderr_lines, overwrite_arg, hist, summary >>

\* Line 830: extract_subtitle has returned; processed_streams += 1.
TaskReturns(w) ==
  /\ pc[w] = "processed"
  /\ extractor' = Processed(extractor)
  /\ pc' = [pc EXCEPT ![w] = "progress"]
  /\ UNCHANGED << world, disk, buttons, ui, locals, hist >>

\* Lines 831-835: update_ui_progress is called with
\* extraction_progress(extractor), and the loop goes to the next task.
TaskProgress(w) ==
  /\ pc[w] = "progress"
  /\ pos' = [pos EXCEPT ![w] = @ + 1]
  /\ pc' = [pc EXCEPT ![w] = "extract"]
  /\ stderr_lines' = [stderr_lines EXCEPT ![w] = 0]
  /\ overwrite_arg' = [overwrite_arg EXCEPT ![w] = FALSE]
  /\ UNCHANGED << world, disk, extractor, buttons, ui, args, video_files,
                  subtitle_streams, pending, summary, hist >>

\* Lines 838-841: the loop is over; the flag decides which line is logged.
AfterLoop(w) ==
  /\ hist' = [hist EXCEPT ![w].marked = extractor.cancel_flag]
  /\ pc' = [pc EXCEPT ![w] = "finish"]
  /\ UNCHANGED << world, disk, extractor, buttons, ui, locals >>

\* Lines 812, 838: every task has been processed; the loop ends and line
\* 838 is next.
ExtractDone(w) ==
  /\ pc[w] = "extract"
  /\ pos[w] > Len(subtitle_streams[w])
  /\ AfterLoop(w)

\* Line 838 after the break of line 814.
ExtractBreak(w) ==
  /\ pc[w] = "after"
  /\ AfterLoop(w)

\* Once the loops are over run_extraction reads none of its locals again;
\* the model forgets them here.
DropLocals(w) ==
  /\ args' = [args EXCEPT ![w] = NoArgs]
  /\ video_files' = [video_files EXCEPT ![w] = << >>]
  /\ subtitle_streams' = [subtitle_streams EXCEPT ![w] = << >>]
  /\ pos' = [pos EXCEPT ![w] = 0]
  /\ stderr_lines' = [stderr_lines EXCEPT ![w] = 0]
  /\ overwrite_arg' = [overwrite_arg EXCEPT ![w] = FALSE]
  /\ pending' = [pending EXCEPT ![w] = NoIncrement]
  /\ summary' = summary

\* finish_extraction is called at lines 774 and 807 (an "early" call,
\* followed by return and the finally clause) and in the finally clause at
\* line 846.  Early(w) tells which call worker w is in.
Early(w) == pc[w] \in {"finish_early", "cancel_btn_early", "report_early",
                       "summary_early", "ready_early", "log_early",
                       "dialog_early"}

\* finish_extraction, line 865: the Extract button.
FinishExtractBtn(w) ==
  /\ pc[w] \in {"finish_early", "finish"}
  /\ extract_btn' = "normal"
  /\ pc' = [pc EXCEPT ![w] = IF Early(w) THEN "cancel_btn_early" ELSE "cancel_btn"]
  /\ DropLocals(w)
  /\ UNCHANGED << world, disk, extractor, cancel_btn, ui, hist >>

\* finish_extraction, line 866: the Cancel button.
FinishCancelBtn(w) ==
  /\ pc[w] \in {"cancel_btn_early", "cancel_btn"}
  /\ cancel_btn' = "disabled"
  /\ pc' = [pc EXCEPT ![w] = IF Early(w) THEN "report_early" ELSE "report"]
  /\ UNCHANGED << world, disk, extractor, extract_btn, ui, locals, hist >>

\* finish_extraction returns: after an early call run_extraction returns
\* through its finally clause, which calls finish_extraction again; after
\* the call in the finally clause the thread ends.
FinishReturns(w) ==
  IF Early(w)
  THEN /\ pc' = [pc EXCEPT ![w] = "finish"]
       /\ hist' = [hist EXCEPT ![w].finishes = @ + 1]
  ELSE /\ pc' = [pc EXCEPT ![w] = "done"]
       /\ hist' = [hist EXCEPT ![w] = NoHist]

\* finish_extraction, line 869: total_streams is read; when it is positive
\* lines 870-871 are next (label "Completed"), otherwise lines 904-905.
FinishReport(w) ==
  /\ pc[w] \in {"report_early", "report"}
  /\ pc' = [pc EXCEPT ![w] =
              IF extractor.total_streams > 0
              THEN (IF Early(w) THEN "summary_early" ELSE "summary")
              ELSE (IF Early(w) THEN "ready_early" ELSE "ready")]
  /\ UNCHANGED << world, disk, extractor, buttons, ui, locals, hist >>

\* finish_extraction, lines 904-905: the progress bar and the label "Ready"
\* are set, and the call returns.
FinishReady(w) ==
  /\ pc[w] \in {"ready_early", "ready"}
  /\ FinishReturns(w)
  /\ UNCHANGED << world, disk, extractor, buttons, ui, locals >>

\* finish_extraction, lines 874-880: the counters and the flag are read.
\* With something to log lines 881-894 are next; otherwise the call
\* returns.
FinishSummary(w) ==
  /\ pc[w] \in {"summary_early", "summary"}
  /\ IF SummaryLog(extractor) # None
     THEN /\ pc' = [pc EXCEPT ![w] = IF Early(w) THEN "log_early" ELSE "log"]
          /\ summary' = [summary EXCEPT ![w] = Shown(extractor)]
          /\ hist' = hist
     ELSE /\ FinishReturns(w)
          /\ summary' = summary
  /\ UNCHANGED << world, disk, extractor, buttons, ui, args, video_files,
                  subtitle_streams, pos, stderr_lines, overwrite_arg, pending >>

\* finish_extraction, lines 881-894: the lines of summary[w] are logged.
\* After the cancelled line the call returns; after the summary lines
\* messagebox.showinfo opens the "Extraction Complete" box (line 896),
\* which is modal: the worker waits in it.
FinishLog(w) ==
  /\ pc[w] \in {"log_early", "log"}
  /\ IF summary[w].log = "cancelled"
     THEN /\ FinishReturns(w)
          /\ summary' = [summary EXCEPT ![w] = NoSummary]
     ELSE /\ pc' = [pc EXCEPT ![w] = IF Early(w) THEN "dialog_early" ELSE "dialog"]
          /\ summary' = summary
          /\ hist' = hist
  /\ UNCHANGED << world, disk, extractor, buttons, ui, args, video_files,
                  subtitle_streams, pos, stderr_lines, overwrite_arg, pending >>

\* finish_extraction, lines 896-902: the user closes the message box;
\* showinfo returns and so does the call.
FinishDialog(w) ==
  /\ pc[w] \in {"dialog_early", "dialog"}
  /\ FinishReturns(w)
  /\ summary' = [summary EXCEPT ![w] = NoSummary]
  /\ UNCHANGED << world, disk, extractor, buttons, ui, args, video_files,
                  subtitle_streams, pos, stderr_lines, overwrite_arg, pending >>

\* The steps worker w takes on its own: they need the thread to be
\* scheduled and the subprocess it waits for to end, nothing else.
Unblocked(w) ==
  \/ Enumerate(w)
  \/ ScanCheck(w)
  \/ ScanCancelled(w)
  \/ \E outcome \in {"json", "garbage"} : ScanProbe(w, outcome)
  \/ ScanProbeRaises(w)
  \/ ScanDone(w)
  \/ ScanBreak(w)
  \/ ZeroProcessed(w)
  \/ ExtractCheck(w)
  \/ ExtractCancelled(w)
  \/ ExtractCall(w)
  \/ ExtractSkip(w)
  \/ ExtractLaunch(w)
  \/ ExtractLaunchRaises(w)
  \/ FfmpegLine(w)
  \/ FfmpegCancelled(w)
  \/ \E return_code \in {0, 1}, diag \in Diagnostics : FfmpegExit(w, return_code, diag)
  \/ RecordOutcome(w)
  \/ TaskReturns(w)
  \/ TaskProgress(w)
  \/ ExtractDone(w)
  \/ ExtractBreak(w)
  \/ FinishExtractBtn(w)
  \/ FinishCancelBtn(w)
  \/ FinishReport(w)
  \/ FinishReady(w)
  \/ FinishSummary(w)
  \/ FinishLog(w)

\* A step of the thread of worker w: one it takes on its own, or the
\* return from the message box once the user has closed it.
Worker(w) ==
  \/ Unblocked(w)
  \/ FinishDialog(w)

\* The steps of the program when at most cap runs are started.
Step(cap) ==
  \/ \E request \in Requests : runs < cap /\ start_extraction(request)
  \/ cancel_extraction
  \/ toggle_overwrite
  \/ \E w \in Workers : Worker(w)
  \/ \E w \in Workers : FfmpegWrites(w)
  \/ \E f \in Outputs : FfmpegWritesLate(f)

Next == Step(MaxRuns)

Spec == Init /\ [][Next]_vars

\* The same program with one run more, long enough for a run to be started
\* while an earlier one is still inside its loops, in the sessions that
\* begin with a run on the tree without video files, go on with runs on
\* the root R alone, and in which the overwrite check box is left alone.
NextRace ==
  \/ \E request \in Requests :
       /\ runs < MaxRuns + 1
       /\ request.directories = IF runs = 0 THEN <<"E">> ELSE <<"R">>
       /\ start_extraction(request)
  \/ cancel_extraction
  \/ \E w \in Workers : Worker(w)
  \/ \E w \in Workers : FfmpegWrites(w)
  \/ \E f \in Outputs : FfmpegWritesLate(f)

SpecRace == Init /\ [][NextRace]_vars
\* The program when every worker thread that can take a step on its own
\* eventually takes one: the threads are scheduled by the operating
\* system and every ffprobe and ffmpeg process ends (ScanProbe returns in
\* one step, the stderr loop reads at most MaxLines lines).  Nothing makes
\* the user close the message box of line 896, so FinishDialog is not
\* under fairness.
Fairness == \A w \in Workers : WF_vars(Unblocked(w))

SpecFair == Init /\ [][Next]_vars /\ Fairness

\* ------------------------------------------------------------ claims
CounterSum(e) ==
  e.successful_extractions + e.failed_extractions + e.skipped_extractions

CountersZero(e) ==
  /\ e.total_streams = 0
  /\ e.processed_streams = 0
  /\ e.successful_extractions = 0
  /\ e.failed_extractions = 0
  /\ e.skipped_extractions = 0

\* Worker w begins a new unit of work in this step: the checkpoint of the
\* scan loop (line 782) lets it go on to the probe of the next file, or the
\* checkpoint of the extraction loop (line 813) to the call of
\* extract_subtitle for the next task.
StartsProbe(w) == pc[w] = "scan" /\ pc'[w] = "probe"

StartsTask(w) == pc[w] = "extract" /\ pc'[w] = "call"

\* The last call of finish_extraction of worker w returns in this step:
\* the run is over and Report(w) is what the call has shown.
FinalReport(w) ==
  pc[w] \in {"ready", "summary", "log", "dialog"} /\ pc'[w] = "done"

\* What the call of finish_extraction that worker w is in has shown when
\* it returns in this step: the summary it read, the summary it reads now
\* and has no line to log for, or the label "Ready".
Report(w) ==
  IF pc[w] \in {"log_early", "log", "dialog_early", "dialog"} THEN summary[w]
  ELSE IF pc[w] \in {"summary_early", "summary"} THEN Shown(extractor)
  ELSE ShownReady

\* The run of worker w is reported as cancelled: by line 839 or by the
\* summary of finish_extraction (line 881).
MarkedCancelled(w) ==
  hist[w].marked \/ Report(w).log = "cancelled"

\* extract_subtitle has returned to worker w, processed_streams has been
\* incremented, and the worker reports progress in this step.
Returns(w) == pc[w] = "progress" /\ pos'[w] = pos[w] + 1

\* C1: at every extraction-progress callback the success, failure and skip
\* counters add up to the processed_streams the callback carries.
C1_CountersSumAtCallback ==
  [][\A w \in Workers :
       Returns(w)
       => CounterSum(extractor) = extraction_progress(extractor).current]_vars

\* Worker w is in its extraction loop.
InExtraction(w) ==
  pc[w] \in {"extract", "call", "exists", "ffmpeg", "count", "processed",
             "progress", "after"}

\* C3: the file list of a run holds every path once, so no file is probed
\* twice and no stream becomes a task twice.
C3_FilesDeduplicated ==
  \A w \in Workers :
    /\ \A i, j \in 1..Len(video_files[w]) :
         i # j => video_files[w][i] # video_files[w][j]
    /\ \A i, j \in 1..Len(subtitle_streams[w]) :
         i # j => subtitle_streams[w][i] # subtitle_streams[w][j]

\* C4: after Cancel() during a run, while that run's worker is still active,
\* processed_streams never decreases and no worker starts a new probe or a
\* new task.
C4_CancelWindsDown ==
  [][extractor.cancel_flag /\ extraction_thread # 0 /\ is_alive(extraction_thread)
       => /\ extractor'.processed_streams >= extractor.processed_streams
          /\ \A w \in Workers : ~StartsProbe(w) /\ ~StartsTask(w)]_vars

\* C5: at most one worker is scanning, extracting or finishing at any time,
\* so reset() never runs while a worker is still active.
C5_OneActiveWorker ==
  Cardinality({w \in Workers : is_alive(w)}) <= 1

\* C6: a worker leaves the scan loop only when every file of the
\* enumeration has been probed or a checkpoint has seen the cancel flag: a
\* failed probe never ends the scan.
C6_ProbeFailureKeepsScanning ==
  [][\A w \in Workers :
       pc[w] \in {"scan", "probe"} /\ pc'[w] \notin {"scan", "probe"}
         => \/ pc[w] = "scan" /\ pos[w] > Len(video_files[w])
            \/ pc[w] = "scan" /\ extractor.cancel_flag]_vars

\* C7: when a tool was missing at startup no run is ever started.
C7_MissingToolIsFatal ==
  dependency_error => runs = 0

\* C8: when the stderr loop sees the cancel flag, extract_subtitle goes on
\* to add exactly 1 to failed_extractions for the task, and nothing to
\* success and skipped.
C8_MidStreamCancelCountsFailed ==
  [][\A w \in Workers :
       FfmpegCancelled(w) => pc'[w] = "count" /\ pending'[w] = Failed]_vars

\* C9: a run in which a checkpoint saw the cancel flag ends with a result
\* that is marked cancelled.
C9_ObservedCancelIsReported ==
  [][\A w \in Workers :
       FinalReport(w) /\ hist[w].observed => MarkedCancelled(w)]_vars

\* C10: a run in which every task was processed (processed_streams =
\* total_streams > 0) and in which no checkpoint saw the cancel flag is
\* reported as completed, never as cancelled.
C10_FullRunIsCompleted ==
  [][\A w \in Workers :
       /\ FinalReport(w)
       /\ ~hist[w].observed
       /\ extractor.total_streams > 0
       /\ extractor.processed_streams = extractor.total_streams
       => ~MarkedCancelled(w)]_vars

\* Worker w takes a step of run_extraction.
Steps(w) == Worker(w)

\* C11: when extract_subtitle is called for a task whose output file exists
\* and overwrite is off, skipped_extractions grows by exactly 1, the success
\* and failure counters stay as they are and no ffmpeg process is started.
C11_ExistingOutputIsSkipped ==
  [][\A w \in Workers :
       /\ /\ pc[w] = "exists"
          /\ TaskOutput(w) \in files
          /\ ~overwrite_arg[w]
          /\ Steps(w)
          => /\ pc'[w] = "count"
             /\ pending'[w] = Skipped
             /\ extractor' = extractor
             /\ files' = files
       /\ pc[w] = "count" /\ pending[w] = Skipped /\ Steps(w)
          => /\ extractor'.skipped_extractions = extractor.skipped_extractions + 1
             /\ extractor'.successful_extractions = extractor.successful_extractions
             /\ extractor'.failed_extractions = extractor.failed_extractions
             /\ pc'[w] = "processed"
             /\ files' = files]_vars

\* A second run has skipped its only task, whose output the first run wrote.
C11_Witness ==
  \E w \in Workers :
    /\ pc[w] = "extract"
    /\ pos[w] = 2
    /\ args[w].output_format \in DOMAIN SUBTITLE_FORMATS
    /\ OutputFile(subtitle_streams[w][1].video_file, args[w].language,
                  args[w].output_format, args[w].output_dir) \in files
    /\ extractor.skipped_extractions = 1
    /\ extractor.successful_extractions = 0
    /\ extractor.failed_extractions = 0
    /\ extractor.processed_streams = 1

\* The extraction loop of worker w has run to its end (line 836), not
\* cancelled, and finish_extraction has not been entered yet.
LoopCompleted(w) ==
  /\ pc[w] = "finish"
  /\ subtitle_streams[w] # << >>
  /\ pos[w] > Len(subtitle_streams[w])
  /\ ~hist[w].observed
  /\ ~extractor.cancel_flag

\* C12: over two runs, when the second run finds the output of every task
\* on disk (as a fully successful first run on the same inputs leaves it)
\* and overwrite is off for each of its tasks, it ends with
\* skipped_extractions = total_streams and no success and no failure.
C12_SecondRunSkipsAll ==
  runs = 2 /\ LoopCompleted(2) /\ hist[2].kind = "repeat"
    => /\ extractor.total_streams = Len(subtitle_streams[2])
       /\ extractor.skipped_extractions = extractor.total_streams
       /\ extractor.successful_extractions = 0
       /\ extractor.failed_extractions = 0

\* The second run has skipped both tasks of the two-directory request, the
\* outputs having been written by the first run.
C12_Witness ==
  /\ runs = 2 /\ LoopCompleted(2) /\ hist[2].kind = "repeat"
  /\ Len(subtitle_streams[2]) = 2
  /\ extractor.skipped_extractions = 2
  /\ pc[1] = "done"

\* The streams ffprobe reports for file f whose language tag equals
\* language, an absent tag counting as "und": their positions in the
\* report, in order.
TaggedAs(f, language) ==
  LET raw == FileTable[f].streams
      Equal(k) == \/ raw[k].tag = language
                  \/ raw[k].tag = None /\ language = "und"
  IN  SelectSeq([k \in 1..Len(raw) |-> k], Equal)

\* The tasks the step adds to the task list of worker w.
NewTasks(w) ==
  SubSeq(subtitle_streams'[w], Len(subtitle_streams[w]) + 1, Len(subtitle_streams'[w]))

\* C13: the probe of a file adds to the task list exactly the reported
\* streams whose language tag equals the requested language (an absent tag
\* is "und"): no stream with another tag becomes a task, and after a probe
\* with parseable output every stream with an equal tag is a task, in the
\* order of the report; the tasks found before stay as they are.
C13_LanguageFilter ==
  [][\A w \in Workers :
       pc[w] = "probe" /\ pos'[w] = pos[w] + 1
       => LET f == video_files[w][pos[w]]
              want == TaggedAs(f, args[w].language)
              new == NewTasks(w)
          IN  /\ Len(subtitle_streams'[w]) >= Len(subtitle_streams[w])
              /\ SubSeq(subtitle_streams'[w], 1, Len(subtitle_streams[w]))
                   = subtitle_streams[w]
              /\ \/ new = << >>
                 \/ /\ Len(new) = Len(want)
                    /\ \A k \in 1..Len(new) :
                         /\ new[k].video_file = f
                         /\ new[k].stream.index = FileTable[f].streams[want[k]].index
                         /\ new[k].stream.language = args[w].language
              /\ ScanProbe(w, "json") => Len(new) = Len(want)]_vars

\* The request for "und" has probed m1 (tags eng, heb: no task) and m2 (no
\* tag, heb: one task, for the stream without a tag).
C13_Witness ==
  \E w \in Workers :
    /\ pc[w] = "scan"
    /\ args[w].language = "und"
    /\ pos[w] = 3
    /\ Len(subtitle_streams[w]) = 1
    /\ subtitle_streams[w][1].stream.language = "und"
    /\ \E k \in DOMAIN FileTable[subtitle_streams[w][1].video_file].streams :
         /\ FileTable[subtitle_streams[w][1].video_file].streams[k].tag = None
         /\ FileTable[subtitle_streams[w][1].video_file].streams[k].index
              = subtitle_streams[w][1].stream.index

\* C14: a task whose extraction fails, because ffmpeg cannot be launched or
\* because it exits with a non-zero code, adds exactly 1 to
\* failed_extractions and the run goes on with the next task.
C14_TaskFailureIsAbsorbed ==
  [][\A w \in Workers :
       \/ /\ pc[w] = "exists"
          /\ TaskPreLaunch(w) = "launch"
          /\ ~ffmpegOK
          /\ Steps(w)
       \/ \E diag \in Diagnostics : FfmpegExit(w, 1, diag)
       => /\ pc'[w] = "count"
          /\ pending'[w].failed = 1
          /\ pos'[w] = pos[w]]_vars

\* C15: in every reachable state processed_streams <= total_streams.
C15_ProcessedAtMostTotal ==
  extractor.processed_streams <= extractor.total_streams

\* C16: a run that is never cancelled and in which every task is extracted
\* successfully with no output on disk beforehand has, when its extraction
\* loop ends, total_streams equal to the number of tasks found, and its
\* final summary reports total = processed = success > 0 and failed =
\* skipped = 0.
C16_CleanRunSummary ==
  [][\A w \in Workers :
       /\ LoopCompleted(w) /\ hist[w].kind = "clean"
            => extractor.total_streams = Len(subtitle_streams[w])
       /\ FinalReport(w) /\ hist[w].kind = "clean" /\ ~hist[w].observed
                         /\ ~extractor.cancel_flag
            => LET r == Report(w)
               IN  /\ r.log = "summary"
                   /\ r.total > 0
                   /\ r.processed = r.total
                   /\ r.success = r.total
                   /\ r.failed = 0
                   /\ r.skipped = 0]_vars

\* C17: a run whose scan ends, not cancelled, with no task does not enter
\* the extraction loop, and it ends reported as completed with
\* total_streams, processed_streams and the three outcome counters at zero.
C17_ZeroTasksEndsCompleted ==
  [][\A w \in Workers :
       /\ pc[w] = "scan" /\ pos[w] > Len(video_files[w]) /\ Steps(w)
                         /\ subtitle_streams[w] = << >>
            => pc'[w] = "finish_early"
       /\ FinalReport(w) /\ hist[w].finishes = 1 /\ ~hist[w].observed
            => /\ Report(w).label = "Completed"
               /\ Report(w).log # "cancelled"
               /\ CountersZero(extractor)]_vars

\* C18: when ffmpeg exits with a non-zero code and its diagnostics say that
\* the output file exists, skipped_extractions grows by 1 and
\* failed_extractions and successful_extractions stay as they are.
C18_ExistsRaceIsSkipped ==
  [][\A w \in Workers :
       FfmpegExit(w, 1, {"Output file exists"})
         => pc'[w] = "count" /\ pending'[w] = Skipped]_vars

\* C19: the scan-progress callback after the probe of the k-th file carries
\* the number of tasks found so far and, as its second value, k, the number
\* of files probed so far.
C19_ScanProgressCountsFiles ==
  [][\A w \in Workers :
       pc[w] = "probe" /\ pos'[w] = pos[w] + 1
       => LET callback == scan_progress(subtitle_streams'[w], video_files'[w])
          IN  /\ callback.current = Len(subtitle_streams'[w])
              /\ callback.total = pos[w]]_vars

\* Worker w hands the task it stands at to extract_subtitle in this step.
Dispatches(w) == pc[w] = "call" /\ pc'[w] # "call"

\* C20: the extraction loop dispatches the tasks in the order of the task
\* list, one position at a time; no task (video file and stream) is
\* dispatched a second time in the run; and a run that is not cancelled
\* leaves the loop only when every task has been dispatched.
C20_DispatchOrder ==
  [][\A w \in Workers :
       /\ InExtraction(w) /\ pc'[w] # "finish"
            => /\ subtitle_streams'[w] = subtitle_streams[w]
               /\ pos'[w] \in {pos[w], pos[w] + 1}
       /\ Dispatches(w)
            => \A j \in 1..(pos[w] - 1) : subtitle_streams[w][j] # Task(w)
       /\ InExtraction(w) /\ pc'[w] = "finish"
            => \/ hist[w].observed
               \/ pos[w] >= Len(subtitle_streams[w])]_vars

\* C21: the extraction-progress callback after the k-th task of a run
\* carries processed = k and total = the number of tasks of the run.
C21_ExtractionProgressInOrder ==
  [][\A w \in Workers :
       Returns(w)
       => LET callback == extraction_progress(extractor)
          IN  /\ callback.current = pos[w]
              /\ callback.total = Len(subtitle_streams[w])]_vars

\* C22: once the scan checkpoint of a run has seen the cancel flag, the run
\* probes no further file and never hands a task to extract_subtitle, also
\* when tasks were found before: processed_streams and the three outcome
\* counters stay zero.
C22_ScanCancelSkipsExtraction ==
  [][\A w \in Workers :
       hist[w].observed /\ pc[w] \in {"total", "zero", "extract"}
       => /\ pc'[w] \notin {"probe", "call"}
          /\ Steps(w) => /\ extractor'.processed_streams = 0
                         /\ CounterSum(extractor') = 0]_vars

\* A run is started in this step: start_extraction has created its worker.
RunStarts == runs' = runs + 1

\* C23: the step that starts a run leaves the extractor in its zero state,
\* cancel_flag false and every counter 0, whatever the flag and the counters
\* of the previous run were, and the new worker stands before its scan.
C23_RunStartsFromZero ==
  [][RunStarts
     => /\ extractor'.cancel_flag = FALSE
        /\ CountersZero(extractor')
        /\ pc'[runs'] = "start"]_vars

\* A second run has been started after a run that was cancelled once it had
\* written an output file, and its extractor is in the zero state.
C23_Witness ==
  /\ runs = 2
  /\ pc[2] = "start"
  /\ hist[1].marked
  /\ files # {}
  /\ extractor.cancel_flag = FALSE
  /\ CountersZero(extractor)

\* The five counters of the extractor, without the flag.
Counters(e) ==
  << e.total_streams, e.processed_streams, e.successful_extractions,
     e.failed_extractions, e.skipped_extractions >>

\* cancel() is called in this step: the flag becomes set.
CancelCalled == ~extractor.cancel_flag /\ extractor'.cancel_flag

\* C24: cancel() sets the flag and leaves the counters alone, a second call
\* gives the same extractor as one call, the step that calls it moves no
\* worker, and a set flag is cleared only by the reset() of the step that
\* starts the next run.
C24_CancelIdempotent ==
  [][/\ cancel(extractor).cancel_flag
     /\ Counters(cancel(extractor)) = Counters(extractor)
     /\ cancel(cancel(extractor)) = cancel(extractor)
     /\ CancelCalled
        => /\ extractor' = cancel(extractor)
           /\ cancel(extractor') = extractor'
           /\ pc' = pc
     /\ extractor.cancel_flag /\ ~extractor'.cancel_flag => RunStarts]_vars

\* Cancel was pressed in a run that had already counted an outcome; the run
\* has ended, the flag is still set, and another call changes nothing.
C24_Witness ==
  /\ runs = 1
  /\ pc[1] = "done"
  /\ extractor.cancel_flag
  /\ CounterSum(extractor) > 0
  /\ cancel(extractor) = extractor

\* C25: every run that was started terminates: its worker goes through
\* finish_extraction and ends, whether or not Cancel is pressed on the way,
\* when every thread is scheduled and every subprocess ends.  A thread that
\* has ended is never started again, so this is: from some point on every
\* worker thread is for ever not alive.
C25_RunTerminates ==
  \A w \in Workers : <>[](~is_alive(w))

\* C26: finish_extraction runs exactly once in a run: when the call that
\* ends the worker thread returns, no other call of it was made in the run.
C26_FinishedExactlyOnce ==
  [][\A w \in Workers : FinalReport(w) => hist[w].finishes = 0]_vars

\* Positions j < k of the task list of w hold two distinct tasks (another
\* file or another stream) that extract_subtitle gives one output file.
SameOutput(w, j, k) ==
  LET a == subtitle_streams[w][j]
      b == subtitle_streams[w][k]
  IN  /\ j < k
      /\ a # b
      /\ OutputFile(a.video_file, args[w].language, args[w].output_format,
                    args[w].output_dir)
         = OutputFile(b.video_file, args[w].language, args[w].output_format,
                      args[w].output_dir)

\* C27: the task list of a run that extracts to a supported format never
\* holds two distinct tasks with the same output file.
C27_OutputFilesDistinct ==
  \A w \in Workers :
    InExtraction(w)
    /\ args[w].output_format \in DOMAIN SUBTITLE_FORMATS
    => \A j, k \in DOMAIN subtitle_streams[w] : ~SameOutput(w, j, k)

\* What extract_subtitle does with the task worker w stands at when it is
\* called with the given overwrite value (line 826 passes the value the
\* check box has at the time of the call).
NextDecision(w, overwrite) ==
  PreLaunch(Task(w).video_file, args[w].language, args[w].output_format,
            args[w].output_dir, overwrite, files)

\* C28: a change of the overwrite check box while a run stands before the
\* call of extract_subtitle for a task does not change what extract_subtitle
\* does with that task: the run goes on with the value it was started with.
C28_OverwriteFixedAtStart ==
  [][\A w \in Workers :
       pc[w] = "call" /\ overwrite_var' # overwrite_var
       => NextDecision(w, overwrite_var') = NextDecision(w, overwrite_var)]_vars

====
